---------------------------- MODULE Spec2Model ----------------------------
(***************************************************************************)
(* Model of sphinxcontrib/needs/services/github.py: the GithubService      *)
(* constructor and its request() handler (query check, one outbound GET,   *)
(* body reflow and truncation, record mapping, option merge).              *)
(*                                                                         *)
(* Text is modelled at the granularity the code works at.  A Python string *)
(* is the sequence of its "\n"-separated segments (what str.split("\n")    *)
(* returns, so never empty); a segment is a sequence of atoms; an atom is  *)
(* a run of characters that holds no line break, described by the token it *)
(* comes from, the offset into that token and its length.                  *)
(***************************************************************************)
EXTENDS Integers, Sequences, FiniteSets, TLC

VARIABLES
    needs_layouts,  \* app.config.needs_layouts: layout name -> template
    self,           \* the service object (its attributes) or why it was not built
    getCount,       \* number of requests.get calls made so far
    pc,             \* position of the current request() call
    options,        \* the options mapping of the current call
    sent,           \* the GETs issued by the current call (their params)
    outcome,        \* what the transport did with the GET of the current call
    result          \* how the current call ended: returned data or raised

vars == <<needs_layouts, self, getCount, pc, options, sent, outcome, result>>

-----------------------------------------------------------------------------
(* Bounds of the model *)

MaxItems == 2       \* longest `items` list of a provider response
MaxOptions == 1     \* caller options of one call besides `query`
MaxCalls == 1       \* outbound GETs over the life of the service

-----------------------------------------------------------------------------
(* Dictionaries *)

EmptyDict == [k \in {} |-> 0]

\* dict.get(key, default)
Get(d, key, default) == IF key \in DOMAIN d THEN d[key] ELSE default

-----------------------------------------------------------------------------
(* Strings *)

Atom(txt, off, len, ws) == [txt |-> txt, off |-> off, len |-> len, ws |-> ws]
Lit(txt, len) == Atom(txt, 0, len, FALSE)
Word(txt, len) == Atom(txt, 0, len, FALSE)
Space(len) == Atom(" ", 0, len, TRUE)

\* chunk[a:b] of an atom
Slice(a, from, to) == Atom(a.txt, a.off + from, to - from, a.ws)

EmptyStr == << <<>> >>
Line(atoms) == << atoms >>

\* s + t
Concat(s, t) ==
    SubSeq(s, 1, Len(s) - 1) \o << s[Len(s)] \o t[1] >> \o Tail(t)

\* sep.join(strs)
RECURSIVE Join(_, _)
Join(sep, strs) ==
    IF strs = <<>> THEN EmptyStr
    ELSE IF Len(strs) = 1 THEN strs[1]
    ELSE Concat(Concat(strs[1], sep), Join(sep, Tail(strs)))

\* s.splitlines(): the lines of s, each a one-segment string
splitlines(s) ==
    LET n == IF s[Len(s)] = <<>> THEN Len(s) - 1 ELSE Len(s)
    IN  [i \in 1..n |-> Line(s[i])]

\* line.strip() != ''
NotBlank(line) == \E i \in 1..Len(line[1]) : ~line[1][i].ws /\ line[1][i].len > 0

IND == Lit("   ", 3)
NL == << <<>>, <<>> >>                       \* "\n"
NL_IND == << <<>>, <<IND>> >>                \* "\n   "
NL_NL_IND == << <<>>, <<>>, <<IND>> >>       \* "\n\n   "
CUT == Lit("[...]", 5)
CUTOFF == << <<>>, <<IND, CUT>>, <<>> >>     \* "\n   [...]\n"
CODE_BLOCK == Lit(".. code-block:: text", 20)
BLOCK_PREFIX == << <<CODE_BLOCK>>, <<>>, <<IND>> >>   \* ".. code-block:: text\n\n   "

-----------------------------------------------------------------------------
(* textwrap.wrap(line, 60, break_long_words=True, replace_whitespace=False) *)

WIDTH == 60

SumLen(atoms) ==
    LET RECURSIVE S(_)
        S(i) == IF i = 0 THEN 0 ELSE S(i - 1) + atoms[i].len
    IN  S(Len(atoms))

\* TextWrapper._wrap_chunks, inner loop: take chunks while they fit
RECURSIVE Fill(_, _)
Fill(chunks, cur) ==
    IF chunks # <<>> /\ SumLen(cur) + Head(chunks).len <= WIDTH
    THEN Fill(Tail(chunks), Append(cur, Head(chunks)))
    ELSE <<cur, chunks>>

\* TextWrapper._handle_long_word with break_long_words: cut the chunk at the
\* space that is left on the line
HandleLongWord(chunks, cur) ==
    IF chunks # <<>> /\ Head(chunks).len > WIDTH
    THEN LET space_left == WIDTH - SumLen(cur)
         IN  << Append(cur, Slice(Head(chunks), 0, space_left)),
                <<Slice(Head(chunks), space_left, Head(chunks).len)>> \o Tail(chunks) >>
    ELSE <<cur, chunks>>

\* drop_whitespace: a whitespace chunk that ends the line is dropped
DropTrailing(cur) ==
    IF cur # <<>> /\ cur[Len(cur)].ws THEN SubSeq(cur, 1, Len(cur) - 1) ELSE cur

\* TextWrapper._wrap_chunks, outer loop
RECURSIVE WrapChunks(_, _)
WrapChunks(chunks, lines) ==
    IF chunks = <<>> THEN lines
    ELSE LET start == IF Head(chunks).ws /\ lines # <<>> THEN Tail(chunks) ELSE chunks
             filled == Fill(start, <<>>)
             broken == HandleLongWord(filled[2], filled[1])
             cur == DropTrailing(broken[1])
         IN  WrapChunks(broken[2], IF cur # <<>> THEN Append(lines, Line(cur)) ELSE lines)

\* the wrapped lines of one line of text, each a one-segment string
wrap(line) == WrapChunks(line[1], <<>>)


-----------------------------------------------------------------------------
(* Python helpers *)

Min(a, b) == IF a < b THEN a ELSE b
Max(a, b) == IF a > b THEN a ELSE b

\* seq[0:n], n of either sign
Prefix(seq, n) ==
    IF n >= 0 THEN SubSeq(seq, 1, Min(n, Len(seq)))
    ELSE SubSeq(seq, 1, Max(Len(seq) + n, 0))

\* sep.join(names), as the flat sequence of its pieces
RECURSIVE JoinNames(_, _)
JoinNames(sep, names) ==
    IF names = <<>> THEN <<>>
    ELSE IF Len(names) = 1 THEN names
    ELSE <<names[1], sep>> \o JoinNames(sep, Tail(names))

Digit(d) ==
    CASE d = 0 -> "0" [] d = 1 -> "1" [] d = 2 -> "2" [] d = 3 -> "3" [] d = 4 -> "4"
      [] d = 5 -> "5" [] d = 6 -> "6" [] d = 7 -> "7" [] d = 8 -> "8" [] d = 9 -> "9"

\* str(n) of a natural number: its decimal digits
RECURSIVE Decimal(_)
Decimal(n) == IF n < 10 THEN <<Digit(n)>> ELSE Append(Decimal(n \div 10), Digit(n % 10))

-----------------------------------------------------------------------------
(* Module constants *)

EXTRA_DATA_OPTIONS == <<"user", "created_at", "updated_at", "closed_at">>
EXTRA_LINK_OPTIONS == <<"url">>
EXTRA_IMAGE_OPTIONS == <<"avatar">>
CONFIG_OPTIONS == <<"type", "query", "max_amount", "max_content_lines", "id_prefix">>
GITHUB_DATA ==
    <<"status", "tags">> \o EXTRA_DATA_OPTIONS \o EXTRA_LINK_OPTIONS \o EXTRA_IMAGE_OPTIONS

Range(seq) == {seq[i] : i \in 1..Len(seq)}

type_config ==
    [issue  |-> [url |-> "search/issues",  query |-> "is:issue"],
     pr     |-> [url |-> "search/issues",  query |-> "is:pr"],
     commit |-> [url |-> "search/commits", query |-> ""]]

\* ", ".join(self.type_config.keys())
SupportedKinds == <<"issue", "pr", "commit">>

\* self.app.config.needs_types[0]['directive']
AppNeedType == "req"

-----------------------------------------------------------------------------
(* GithubService.__init__ *)

NoService(exc, names) ==
    [status |-> IF exc = "" THEN "none" ELSE "failed", exc |-> exc, msg_kinds |-> names,
     kwargs |-> EmptyDict,
     url |-> "", need_type |-> "", max_amount |-> 0, max_content_lines |-> 0,
     id_prefix |-> "", layout |-> "", type |-> ""]

\* line 90: `self.type` is read; it is set (line 88) only when kwargs has `type`
\* and the class defines no such attribute
TypeAttribute(kwargs) ==
    IF "type" \in DOMAIN kwargs THEN kwargs["type"] ELSE "<AttributeError>"

GithubService(kwargs, config) ==
    LET type == TypeAttribute(kwargs)
        made ==
            IF type = "<AttributeError>" THEN NoService("AttributeError", <<>>)
            ELSE IF type \notin DOMAIN type_config THEN NoService("KeyError", SupportedKinds)
            ELSE [status |-> "ready", exc |-> "", msg_kinds |-> <<>>,
                  kwargs |-> EmptyDict,
                  url |-> Get(config, "url", "https://api.github.com/"),
                  need_type |-> Get(config, "need_type", AppNeedType),
                  max_amount |-> Get(config, "max_amount", 5),
                  max_content_lines |-> Get(config, "max_content_lines", -1),
                  id_prefix |-> Get(config, "id_prefix", "GITHUB_"),
                  layout |-> Get(config, "layout", "github"),
                  type |-> type]
    IN  [made EXCEPT !.kwargs = kwargs]

RegisterLayout(layouts) ==
    IF "github" \notin DOMAIN layouts THEN layouts @@ [github |-> "GITHUB_LAYOUT"]
    ELSE layouts

init(kwargs, config) ==
    /\ self.status = "none"
    /\ needs_layouts' = RegisterLayout(needs_layouts)
    /\ self' = GithubService(kwargs, config)
    /\ UNCHANGED <<getCount, pc, options, sent, outcome, result>>

-----------------------------------------------------------------------------
(* GithubService._send and the provider's answer *)

\* lines 96-101: the query, the page size and the URL of the GET
Params(svc, query, opts) ==
    [q |-> <<query, " ", type_config[svc.type].query>>,
     per_page |-> Get(opts, "max_amount", svc.max_amount),
     url |-> <<svc.url, type_config[svc.type].url>>]

NoOutcome == [error |-> "", status |-> 0, json |-> "", items |-> <<>>]

\* lines 104-105 and 119: requests.get raises, or resp.json() raises, or the
\* parsed body has no `items`; the HTTP status is never looked at
TransportError(out) ==
    IF out.error # "" THEN out.error
    ELSE IF out.json = "malformed" THEN "JSONDecodeError"
    ELSE IF out.json = "object" THEN "KeyError"
    ELSE ""

-----------------------------------------------------------------------------
(* GithubService.request, lines 119-164: one item per raw record *)

\* lines 121-124: the reflowed body
Reflow(body) ==
    LET kept == SelectSeq(splitlines(body), NotBlank)
        content_lines == [i \in 1..Len(kept) |-> Join(NL_IND, wrap(kept[i]))]
    IN  Join(NL_NL_IND, content_lines)

\* line 126: the gate of the truncation
ReduceContent(svc, opts) == svc.max_content_lines > 0

\* lines 126-132
Truncate(svc, opts, content) ==
    IF ReduceContent(svc, opts)
    THEN LET max_lines == Get(opts, "max_content_lines", svc.max_content_lines)
             content_lines == splitlines(content)
             cut == IF Len(content_lines) > max_lines
                    THEN Append(Prefix(content_lines, max_lines), CUTOFF)
                    ELSE content_lines
         IN  Join(NL, cut)
    ELSE content

\* lines 121-136
Content(svc, opts, body) == Concat(BLOCK_PREFIX, Truncate(svc, opts, Reflow(body)))

\* line 138 without the caller's option
IdPrefix_config(svc, opts) == svc.id_prefix

\* line 138
IdPrefix(svc, opts) == Get(opts, "id_prefix", svc.id_prefix)

\* line 139
need_id(prefix, number) == <<prefix>> \o Decimal(number)

\* lines 140-154
ElementData(svc, opts, item) ==
    [type |-> Get(opts, "type", svc.need_type),
     layout |-> Get(opts, "layout", svc.layout),
     id |-> need_id(IdPrefix(svc, opts), item.number),
     title |-> item.title,
     content |-> Content(svc, opts, item.body),
     status |-> item.state,
     tags |-> JoinNames(",", [i \in 1..Len(item.labels) |-> item.labels[i].name]),
     user |-> item.user.login,
     url |-> item.html_url,
     avatar |-> item.user.avatar_url,
     created_at |-> item.created_at,
     updated_at |-> item.updated_at,
     closed_at |-> item.closed_at]

\* line 159 without its first test: only the GITHUB_DATA names are protected
MergeKey_data_only(key, element_data) == key \notin Range(GITHUB_DATA)

\* line 159: is the caller option `key` added to the item
MergeKey(key, element_data) ==
    key \notin DOMAIN element_data /\ key \notin Range(GITHUB_DATA)

\* lines 157-160
Merge(element_data, opts) ==
    LET added == {k \in DOMAIN opts : MergeKey(k, element_data)}
    IN  [k \in DOMAIN element_data \cup added |->
            IF k \in added THEN opts[k] ELSE element_data[k]]

\* the loop with data.insert(0, ...) in place of data.append(...)
RECURSIVE MapItems_prepend(_, _, _)
MapItems_prepend(svc, opts, items) ==
    IF items = <<>> THEN <<>>
    ELSE Append(MapItems_prepend(svc, opts, Tail(items)),
                Merge(ElementData(svc, opts, Head(items)), opts))

\* lines 118-164: the loop over response['items']
RECURSIVE MapItems(_, _, _)
MapItems(svc, opts, items) ==
    IF items = <<>> THEN <<>>
    ELSE Append(MapItems(svc, opts, SubSeq(items, 1, Len(items) - 1)),
                Merge(ElementData(svc, opts, items[Len(items)]), opts))

-----------------------------------------------------------------------------
(* GithubService.request as steps: the call up to the GET, the provider's  *)
(* answer up to the return or the raise, and the caller taking the result. *)

NoResult == [exc |-> "", data |-> <<>>]

\* request() with `query = options.get('query', '')` in place of the check
request_call_lenient(opts) ==
    /\ self.status = "ready"
    /\ pc = "idle"
    /\ getCount < MaxCalls
    /\ options' = opts
    /\ outcome' = NoOutcome
    /\ pc' = "sent"
    /\ result' = NoResult
    /\ sent' = <<Params(self, Get(opts, "query", ""), opts)>>
    /\ getCount' = getCount + 1
    /\ UNCHANGED <<needs_layouts, self>>

\* lines 107-117 and 95-104: the query check, then the GET
request_call(opts) ==
    /\ self.status = "ready"
    /\ pc = "idle"
    /\ options' = opts
    /\ outcome' = NoOutcome
    /\ IF "query" \notin DOMAIN opts
       THEN /\ pc' = "raised"
            /\ result' = [exc |-> "NeedGithubServiceException", data |-> <<>>]
            /\ sent' = <<>>
            /\ UNCHANGED getCount
       ELSE /\ getCount < MaxCalls
            /\ pc' = "sent"
            /\ result' = NoResult
            /\ sent' = <<Params(self, opts["query"], opts)>>
            /\ getCount' = getCount + 1
    /\ UNCHANGED <<needs_layouts, self>>

\* lines 104-105 and 117-164: the answer is parsed and mapped, or the error
\* of the transport leaves request()
request_response(out) ==
    /\ pc = "sent"
    /\ outcome' = out
    /\ IF TransportError(out) # ""
       THEN /\ pc' = "raised"
            /\ result' = [exc |-> TransportError(out), data |-> <<>>]
       ELSE /\ pc' = "returned"
            /\ result' = [exc |-> "", data |-> MapItems(self, options, out.items)]
    /\ UNCHANGED <<needs_layouts, self, getCount, options, sent>>

\* the caller has the list or the exception; the service is ready for a new call
request_exit ==
    /\ pc \in {"returned", "raised"}
    /\ pc' = "idle"
    /\ options' = EmptyDict
    /\ sent' = <<>>
    /\ outcome' = NoOutcome
    /\ result' = NoResult
    /\ UNCHANGED <<needs_layouts, self, getCount>>

-----------------------------------------------------------------------------
(* Inputs *)

\* the hosting application's configuration of the service
ConfigOverrides ==
    [url |-> "https://ghe.example/api/v3/", need_type |-> "spec", max_amount |-> 10,
     id_prefix |-> "GH-", layout |-> "clean"]

Configs ==
    {EmptyDict, [max_content_lines |-> 2], [max_content_lines |-> 0], ConfigOverrides}

Kwargs == {EmptyDict} \cup {[type |-> t] : t \in {"issue", "pr", "commit", "graphql"}}

\* the keys of element_data (lines 140-154) a caller option can collide with
StructuralKeys ==
    {"id", "title", "content", "status", "tags", "user", "url", "avatar",
     "created_at", "updated_at", "closed_at"}

OptionKeys ==
    {"max_amount", "max_content_lines", "id_prefix", "type", "layout", "priority"}
        \cup StructuralKeys

\* the values a caller gives an option
Variants(key) ==
    CASE key = "query" -> <<"bug">>
      [] key = "max_amount" -> <<3, 0>>
      [] key = "max_content_lines" -> <<2, 0, -1>>
      [] key = "id_prefix" -> <<"BUG-">>
      [] key = "type" -> <<"bugreport">>
      [] key = "layout" -> <<"focus">>
      [] key = "priority" -> <<"high">>
      [] key = "id" -> << <<"CALLER_", "1">> >>
      [] key = "content" -> << Line(<<Lit("caller text", 11)>>) >>
      [] key = "tags" -> << <<"caller-tag">> >>
      [] OTHER -> <<"caller">>

RECURSIVE SubsetsUpTo(_, _)
SubsetsUpTo(S, n) ==
    IF n = 0 THEN {{}}
    ELSE LET smaller == SubsetsUpTo(S, n - 1)
         IN  smaller \cup {A \cup {k} : A \in smaller, k \in S}

OptionDomains ==
    LET extra == SubsetsUpTo(OptionKeys, MaxOptions)
    IN  extra \cup {D \cup {"query"} : D \in extra}

MaxVariants == CHOOSE n \in 1..9 : \A k \in OptionKeys : Len(Variants(k)) <= n

Choices(D) == {c \in [D -> 1..MaxVariants] : \A k \in D : c[k] <= Len(Variants(k))}

OptionsOf(D, c) == [k \in D |-> Variants(k)[c[k]]]

\* raw records of the provider
Label(name) == [name |-> name]

BodyFive ==
    << <<Word("alpha", 5)>>, <<>>, <<Word("beta", 4), Space(1), Word("gamma", 5)>>,
       <<Space(2)>>, <<Word("delta", 5)>> >>

BodyLong == << <<Space(2), Word("lorem", 40), Space(1), Word("ipsum", 70), Space(1)>>, <<>> >>

RawRecord(number, title, body, state, labels, url) ==
    [number |-> number, title |-> title, body |-> body, state |-> state,
     labels |-> labels,
     user |-> [login |-> "octocat", avatar_url |-> "https://avatars.example/octocat"],
     html_url |-> url,
     created_at |-> "2020-01-01", updated_at |-> "2020-02-02", closed_at |-> "null"]

RawRecords ==
    { RawRecord(7, "first", BodyFive, "open", <<Label("bug"), Label("ui"), Label("p1")>>,
                "https://github.example/issues/7"),
      RawRecord(42, "second", BodyLong, "closed", <<Label("docs")>>,
                "https://github.example/issues/42"),
      RawRecord(105, "third", EmptyStr, "open", <<>>,
                "https://github.example/issues/105") }

\* a search answer lists a record once
ItemLists ==
    {l \in UNION {[1..n -> RawRecords] : n \in 0..MaxItems} :
        \A i, j \in 1..Len(l) : i # j => l[i].number # l[j].number}

Outcomes ==
    {[error |-> "ConnectionError", status |-> 0, json |-> "", items |-> <<>>]}
    \cup {[error |-> "", status |-> st, json |-> "malformed", items |-> <<>>] : st \in {200}}
    \cup {[error |-> "", status |-> st, json |-> "object", items |-> <<>>] : st \in {200, 403}}
    \cup {[error |-> "", status |-> st, json |-> "items", items |-> l] :
            st \in {200, 500}, l \in ItemLists}

-----------------------------------------------------------------------------
(* Specification *)

Init ==
    /\ needs_layouts = EmptyDict
    /\ self = NoService("", <<>>)
    /\ getCount = 0
    /\ pc = "idle"
    /\ options = EmptyDict
    /\ sent = <<>>
    /\ outcome = NoOutcome
    /\ result = NoResult

Next ==
    \/ \E kwargs \in Kwargs, config \in Configs : init(kwargs, config)
    \/ \E D \in OptionDomains : \E c \in Choices(D) : request_call(OptionsOf(D, c))
    \/ \E out \in Outcomes : request_response(out)
    \/ request_exit

Spec == Init /\ [][Next]_vars

-----------------------------------------------------------------------------
(* Properties *)

Done == pc \in {"returned", "raised"}
Returned == pc = "returned"
Items == outcome.items
Data == result.data

\* C1: a call of request whose options have no `query` key (none at all
\* included) raises the request error at once, and the number of outbound GETs
\* after the call is the number before it.
NoQueryNoGet ==
    [][(pc = "idle" /\ pc' # "idle" /\ "query" \notin DOMAIN options')
        => /\ pc' = "raised"
           /\ result'.exc = "NeedGithubServiceException"
           /\ sent' = <<>>
           /\ getCount' = getCount]_vars

NoQueryAfterGet ==
    /\ pc = "raised"
    /\ "query" \notin DOMAIN options
    /\ result.exc = "NeedGithubServiceException"
    /\ getCount > 0

\* the configuration error of line 91, whose message names the supported kinds
ConfigurationError == self.exc = "KeyError" /\ self.msg_kinds = SupportedKinds

\* C2: construction succeeds exactly when a record kind is given and is one of
\* the supported kinds; otherwise it fails with the configuration error whose
\* message names the supported kinds.
ConstructionChecksKind ==
    self.status # "none" =>
        IF "type" \in DOMAIN self.kwargs /\ self.kwargs["type"] \in Range(SupportedKinds)
        THEN self.status = "ready"
        ELSE self.status = "failed" /\ ConfigurationError

\* the lines of the body as the item's content shows them: what follows the
\* literal-block marker, without the indent that the marker line ends with
BodyLines(content) ==
    LET segs == SubSeq(content, 3, Len(content))
    IN  [i \in 1..Len(segs) |-> IF i = 1 THEN Tail(segs[1]) ELSE segs[i]]

HasMarker(content) ==
    /\ Len(content) >= 3
    /\ content[1] = <<CODE_BLOCK>>
    /\ content[2] = <<>>
    /\ content[3] # <<>> /\ content[3][1] = IND

HasCutoff(content) ==
    \E i \in 1..Len(content) : \E j \in 1..Len(content[i]) : content[i][j] = CUT

Segments(lines) == [i \in 1..Len(lines) |-> lines[i][1]]

\* the content holds every line of `lines` and no cutoff marker
KeepsAll(content, lines) ==
    /\ HasMarker(content)
    /\ ~HasCutoff(content)
    /\ BodyLines(content) = IF lines = <<>> THEN << <<>> >> ELSE Segments(lines)

\* the content holds the first `cap` lines of `lines`, then the cutoff marker
CutAt(content, lines, cap) ==
    /\ HasMarker(content)
    /\ Len(BodyLines(content)) = cap + Len(CUTOFF)
    /\ SubSeq(BodyLines(content), 1, cap) = Segments(SubSeq(lines, 1, cap))
    /\ SubSeq(BodyLines(content), cap + 1, cap + Len(CUTOFF)) = CUTOFF

EffectiveMaxContentLines == Get(options, "max_content_lines", self.max_content_lines)

ReflowedLines(i) == splitlines(Reflow(Items[i].body))

\* C3: when the effective max_content_lines is a positive cap, a body of more
\* than cap reflowed lines gives the marker, the first cap lines and the cutoff
\* marker, and a body of at most cap lines is kept whole without cutoff marker,
\* for every service configuration.
PositiveCapTruncates ==
    (Returned /\ EffectiveMaxContentLines > 0) =>
        \A i \in 1..Len(Data) :
            IF Len(ReflowedLines(i)) > EffectiveMaxContentLines
            THEN CutAt(Data[i]["content"], ReflowedLines(i), EffectiveMaxContentLines)
            ELSE KeepsAll(Data[i]["content"], ReflowedLines(i))

\* C4: when the effective max_content_lines is zero or negative, the content
\* holds every reflowed line and no cutoff marker, whatever the configured
\* default is.
NonPositiveCapUnbounded ==
    (Returned /\ EffectiveMaxContentLines <= 0) =>
        \A i \in 1..Len(Data) : KeepsAll(Data[i]["content"], ReflowedLines(i))

\* the keys of every item (lines 140-154)
RequiredKeys == StructuralKeys \cup {"type", "layout"}

RECURSIVE ParseDecimal(_)
ParseDecimal(digits) ==
    IF digits = <<>> THEN 0
    ELSE 10 * ParseDecimal(SubSeq(digits, 1, Len(digits) - 1))
            + (CHOOSE d \in 0..9 : Digit(d) = digits[Len(digits)])

\* id is the prefix followed by the number in decimal, without padding
IdOf(id, prefix, number) ==
    /\ Len(id) >= 2
    /\ id[1] = prefix
    /\ \A i \in 2..Len(id) : \E d \in 0..9 : Digit(d) = id[i]
    /\ ParseDecimal(Tail(id)) = number
    /\ (Len(id) > 2 => id[2] # "0")

EffectiveIdPrefix ==
    IF "id_prefix" \in DOMAIN options THEN options["id_prefix"] ELSE self.id_prefix

CommaJoined(tags, labels) ==
    /\ Len(tags) = IF labels = <<>> THEN 0 ELSE 2 * Len(labels) - 1
    /\ \A i \in 1..Len(tags) :
          tags[i] = IF i % 2 = 1 THEN labels[(i + 1) \div 2].name ELSE ","

\* C5: in every returned item the structural keys hold the values derived from
\* the raw record, also when the caller options hold a key of that name; and
\* every caller option that is no key of the item appears in every item with
\* the caller's value.
StructuralKeysKept ==
    Returned =>
        \A i \in 1..Len(Data) :
            LET item == Data[i]
                rec == Items[i]
            IN  /\ IdOf(item["id"], EffectiveIdPrefix, rec.number)
                /\ item["title"] = rec.title
                /\ HasMarker(item["content"])
                /\ item["content"] = Content(self, options, rec.body)
                /\ item["status"] = rec.state
                /\ CommaJoined(item["tags"], rec.labels)
                /\ item["user"] = rec.user.login
                /\ item["url"] = rec.html_url
                /\ item["avatar"] = rec.user.avatar_url
                /\ item["created_at"] = rec.created_at
                /\ item["updated_at"] = rec.updated_at
                /\ item["closed_at"] = rec.closed_at
                /\ \A k \in DOMAIN options :
                       k \notin RequiredKeys \cup Range(GITHUB_DATA)
                           => k \in DOMAIN item /\ item[k] = options[k]

StructuralCollision ==
    /\ Returned
    /\ Len(Data) > 0
    /\ DOMAIN options \cap StructuralKeys # {}

\* C6: no returned item has a key query, max_amount, max_content_lines or
\* id_prefix.
ConfigOptionsNotMerged ==
    Returned =>
        \A i \in 1..Len(Data) :
            DOMAIN Data[i] \cap {"query", "max_amount", "max_content_lines", "id_prefix"} = {}

\* C7: per_page is the caller's max_amount when that is positive and the
\* configured default otherwise; no zero or negative limit is sent.
PositivePageSize ==
    \A i \in 1..Len(sent) :
        /\ sent[i].per_page > 0
        /\ sent[i].per_page =
              IF "max_amount" \in DOMAIN options /\ options["max_amount"] > 0
              THEN options["max_amount"]
              ELSE self.max_amount

\* the GET failed: no answer, an answer outside 2xx, or a body that is no JSON
GetFailed(out) == out.error # "" \/ out.status \notin 200..299 \/ out.json = "malformed"

\* C8: a request that passes the query check issues exactly one GET, and when
\* that GET fails the request ends in an error and returns no list.
FailedGetRaises ==
    (Done /\ "query" \in DOMAIN options) =>
        /\ Len(sent) = 1
        /\ GetFailed(outcome) => pc = "raised"

\* C9: type, layout and id-prefix of every item are the caller's option when
\* given and the service's configured default otherwise, and the id is the
\* effective id-prefix followed by the record's number in unpadded decimal.
CallerOverridesDefaults ==
    Returned =>
        \A i \in 1..Len(Data) :
            /\ Data[i]["type"] =
                  IF "type" \in DOMAIN options THEN options["type"] ELSE self.need_type
            /\ Data[i]["layout"] =
                  IF "layout" \in DOMAIN options THEN options["layout"] ELSE self.layout
            /\ IdOf(Data[i]["id"], EffectiveIdPrefix, Items[i].number)

CallerPrefixUsed ==
    /\ Returned
    /\ Len(Data) > 0
    /\ "id_prefix" \in DOMAIN options
    /\ options["id_prefix"] # self.id_prefix
    /\ \E i \in 1..Len(Data) : Items[i].number >= 10

\* C10: a successful request returns one item per raw record of `items`, in
\* the order of `items`.
OneItemPerRecordInOrder ==
    Returned =>
        /\ Len(Data) = Len(Items)
        /\ \A i \in 1..Len(Data) :
              /\ Data[i]["title"] = Items[i].title
              /\ Data[i]["url"] = Items[i].html_url

TwoRecordsMapped ==
    /\ Returned
    /\ Len(Data) >= 2
    /\ Data[1]["title"] # Data[2]["title"]

=============================================================================
